---- MODULE Spec2Model ----
(***************************************************************************)
(* Model of src/i8042_driver.c: the bring-up sequence of init_module, the  *)
(* polling primitives read_reg / write_dev1 / write_dev2, the interrupt    *)
(* handler i8042_handler and cleanup_module, together with the controller  *)
(* (output buffer, status bits, interrupt lines) and the clock they run    *)
(* against.                                                                *)
(***************************************************************************)
EXTENDS Integers, Sequences, FiniteSets

(***************************************************************************)
(* Bounds of the model.                                                    *)
(***************************************************************************)
\* msecs_to_jiffies(250): the length of one wait, in clock ticks
Delay == 1

(***************************************************************************)
(* Program constants (src/i8042_driver.c:32-75) and the errno values       *)
(* init_module returns.                                                    *)
(***************************************************************************)
I8042_IRQ1 == 1
I8042_IRQ12 == 12
UNDEFINED == 0
KEYBOARD == 1
MOUSE == 2
ETIME == 62
EINVAL == 22
ENOMEM == 12
EBUSY == 16
\* the byte init_module accepts as "self test was successful" (line 241)
SelfTestPass == \h55
\* the byte i8042_handler treats as the escape prefix (line 118)
EscapeByte == \hE0

(***************************************************************************)
(* The scancode tables (lines 80-108).  TLA+ sequences are 1-based: entry  *)
(* i+1 here is entry i of the C array.                                     *)
(***************************************************************************)
press_scancodes ==
  <<            \h01, \h02, \h03, \h04, \h05, \h06, \h07, \h08, \h09, \h0A, \h0B, \h0C, \h0D, \h0E, \h0F,
    \h10, \h11, \h12, \h13, \h14, \h15, \h16, \h17, \h18, \h19, \h1A, \h1B, \h1C, \h1D, \h1E, \h1F,
    \h20, \h21, \h22, \h23, \h24, \h25, \h26, \h27, \h28, \h29, \h2A, \h2B, \h2C, \h2D, \h2E, \h2F,
    \h30, \h31, \h32, \h33, \h34, \h35, \h36, \h37, \h38, \h39, \h3A, \h3B, \h3C, \h3D, \h3E, \h3F,
    \h40, \h41, \h42, \h43, \h44, \h45, \h46, \h47, \h48, \h49, \h4A, \h4B, \h4C, \h4D, \h4E, \h4F,
    \h50, \h51, \h52, \h53,                   \h57, \h58 >>

release_scancodes ==
  <<            \h81, \h82, \h83, \h84, \h85, \h86, \h87, \h88, \h89, \h8A, \h8B, \h8C, \h8D, \h8E, \h8F,
    \h90, \h91, \h92, \h93, \h94, \h95, \h96, \h97, \h98, \h99, \h9A, \h9B, \h9C, \h9D, \h9E, \h9F,
    \hA0, \hA1, \hA2, \hA3, \hA4, \hA5, \hA6, \hA7, \hA8, \hA9, \hAA, \hAB, \hAC, \hAD, \hAE, \hAF,
    \hB0, \hB1, \hB2, \hB3, \hB4, \hB5, \hB6, \hB7, \hB8, \hB9, \hBA, \hBB, \hBC, \hBD, \hBE, \hBF,
    \hC0, \hC1, \hC2, \hC3, \hC4, \hC5, \hC6, \hC7, \hC8, \hC9, \hCA, \hCB, \hCC, \hCD, \hCE, \hCF,
    \hD0, \hD1, \hD2, \hD3,                   \hD7, \hD8 >>

keys ==
  <<         "KEY_ESC", "KEY_1", "KEY_2", "KEY_3", "KEY_4", "KEY_5", "KEY_6", "KEY_7", "KEY_8", "KEY_9", "KEY_0", "KEY_MINUS", "KEY_EQUAL", "KEY_BACKSPACE", "KEY_TAB",
    "KEY_Q", "KEY_W", "KEY_E", "KEY_R", "KEY_T", "KEY_Y", "KEY_U", "KEY_I", "KEY_O", "KEY_P", "KEY_LEFTBRACE", "KEY_RIGHTBRACE", "KEY_ENTER", "KEY_LEFTCTRL", "KEY_A", "KEY_S",
    "KEY_D", "KEY_F", "KEY_G", "KEY_H", "KEY_J", "KEY_K", "KEY_L", "KEY_SEMICOLON", "KEY_APOSTROPHE", "KEY_GRAVE", "KEY_LEFTSHIFT", "KEY_BACKSLASH", "KEY_Z", "KEY_X", "KEY_C", "KEY_V",
    "KEY_B", "KEY_N", "KEY_M", "KEY_COMMA", "KEY_DOT", "KEY_SLASH", "KEY_RIGHTSHIFT", "KEY_KPASTERISK", "KEY_LEFTALT", "KEY_SPACE", "KEY_CAPSLOCK", "KEY_F1", "KEY_F2", "KEY_F3", "KEY_F4", "KEY_F5",
    "KEY_F6", "KEY_F7", "KEY_F8", "KEY_F9", "KEY_F10", "KEY_NUMLOCK", "KEY_SCROLLLOCK", "KEY_KP7", "KEY_KP8", "KEY_KP9", "KEY_KPMINUS", "KEY_KP4", "KEY_KP5", "KEY_KP6", "KEY_KPPLUS", "KEY_KP1",
    "KEY_KP2", "KEY_KP3", "KEY_KP0", "KEY_KPDOT", "KEY_F11", "KEY_F12" >>

esc_press_scancodes ==
  << \h1C, \h1D, \h2A, \h36, \h38, \h47, \h48, \h49, \h4B, \h4D, \h4F, \h50, \h51, \h52, \h53 >>

esc_release_scancodes ==
  << \h9C, \h9D, \hAA, \hB6, \hB8, \hC7, \hC8, \hC9, \hCB, \hCD, \hCF, \hD0, \hD1, \hD2, \hD3 >>

esc_keys ==
  << "KEY_KPENTER", "KEY_RIGHTCTRL", "KEY_LEFTSHIFT", "KEY_RIGHTSHIFT", "KEY_RIGHTALT", "KEY_HOME", "KEY_UP", "KEY_PAGEUP", "KEY_LEFT", "KEY_RIGHT", "KEY_END", "KEY_DOWN",
     "KEY_PAGEDOWN", "KEY_INSERT", "KEY_DELETE" >>

\* the loop bounds written in i8042_handler (lines 119 and 130)
OneByteLoop == 85
EscLoop == 15

(***************************************************************************)
(* The table scan of i8042_handler: for (i = 0; i < n; i++), report the    *)
(* key of the first index whose press code, else whose release code,       *)
(* equals scancode, and break.  The result is the sequence of              *)
(* input_report_key calls, each <<key, value>>.                            *)
(***************************************************************************)
ScanTable(press, release, keytab, scancode, n) ==
  LET hits == { i \in 1..n : scancode = press[i] \/ scancode = release[i] } IN
  IF hits = {} THEN << >>
  ELSE LET i == CHOOSE k \in hits : \A j \in hits : k <= j IN
       IF scancode = press[i] THEN << <<keytab[i], 1>> >> ELSE << <<keytab[i], 0>> >>

\* lines 118-127: the branch taken when the first byte is not the escape byte
ScanOneByte(scancode) ==
  ScanTable(press_scancodes, release_scancodes, keys, scancode, OneByteLoop)

\* lines 129-138: the branch taken after the escape byte, on the second inb
ScanEscaped(scancode) ==
  ScanTable(esc_press_scancodes, esc_release_scancodes, esc_keys, scancode, EscLoop)

(***************************************************************************)
(* Bit operations on a byte (test_bit, __clear_bit, __set_bit).            *)
(***************************************************************************)
test_bit(n, b) == (b \div (2 ^ n)) % 2 = 1
clear_bit(n, b) == IF test_bit(n, b) THEN b - 2 ^ n ELSE b
set_bit(n, b) == IF test_bit(n, b) THEN b ELSE b + 2 ^ n

(***************************************************************************)
(* Inputs.  Responses are the bytes the controller and the devices may put *)
(* in the output buffer while init_module runs; Scancodes are the bytes a  *)
(* device may send once init_module has returned.                          *)
(***************************************************************************)
Responses == { \h00, \h03, \h04, \h41, \h55, \h83, \hAB, \hC1, \hFA }
Scancodes == { \h1C, \h1E, \h54, \h9C, \hE0 }
\* what input_register_device may return when it fails
RegisterErrors == { ENOMEM }

(***************************************************************************)
(* State.                                                                  *)
(*   pc        the program point of init_module / the module's lifecycle  *)
(*   jiffies   the clock, counted from j0 of the wait in progress: the     *)
(*             program reads jiffies only through time_before(jiffies, j1) *)
(*             with j1 = j0 + delay, so only jiffies - j0 is kept          *)
(*   outbuf    the controller's output buffer: << >> when status bit 0 is  *)
(*             clear, <<b>> when it is set and the data register holds b   *)
(*   byte, dual_channel_test      locals of init_module                    *)
(*   first_port, second_port, dev1, dev2   the module's globals; dev1/dev2 *)
(*             are "none", "allocated" or "registered"                     *)
(*   irqs      the interrupt lines i8042_handler is bound to               *)
(*   ret       the value init_module returned                              *)
(* History (not read by the program):                                      *)
(*   fail      the program point at which init_module failed               *)
(*   usable    which ports passed their interface test                     *)
(*   ident     the identification in progress: its port, the bytes read    *)
(*             after the identify command, the sub-step that timed out     *)
(*   trace     the register writes and the sink / interrupt calls made     *)
(*   last      the most recent i8042_handler invocation: its line, the     *)
(*             byte of its first inb, the byte of its second inb (-1 if    *)
(*             none), the byte that arrived between the two (-1 if none),  *)
(*             its input_report_key and input_sync calls, and whether the  *)
(*             invocation before it on the line read only the escape byte  *)
(***************************************************************************)
VARIABLES pc, jiffies, outbuf, byte, dual_channel_test, first_port, second_port,
          dev1, dev2, irqs, ret, fail, usable, ident, trace, last

vars == << pc, jiffies, outbuf, byte, dual_channel_test, first_port, second_port,
           dev1, dev2, irqs, ret, fail, usable, ident, trace, last >>

globals == << first_port, second_port >>
sinks == << dev1, dev2, irqs >>
result == << ret, fail >>

NoIdent == [port |-> 0, bytes |-> << >>, tmo |-> "none"]
NoCall == [irq |-> 0, first |-> -1, second |-> -1, arrived |-> -1,
           events |-> << >>, syncs |-> << >>, after_escape |-> FALSE]

Init ==
  /\ pc = "start"
  /\ jiffies = 0
  /\ outbuf \in { << >> } \cup { <<b>> : b \in Responses }
  /\ byte = 0
  /\ dual_channel_test = 0
  /\ first_port = 0
  /\ second_port = 0
  /\ dev1 = "none"
  /\ dev2 = "none"
  /\ irqs = {}
  /\ ret = 0
  /\ fail = "none"
  /\ usable = {}
  /\ ident = NoIdent
  /\ trace = << >>
  /\ last = NoCall

(***************************************************************************)
(* The clock.  time_before(a, b) is the kernel macro ((long)(a - b) < 0);  *)
(* with jiffies counted from j0 no wrap-around lies between j0 and j1.      *)
(***************************************************************************)
\* a loop that never looks at the clock
time_before_forever(a, b) == TRUE

time_before(a, b) == a < b

\* lines 154-156, 171-173, 189-191: j1 = j0 + msecs_to_jiffies(wait_time)
j1 == Delay

Terminal == { "Ready", "Failed", "Unloaded" }

\* the clock advances while a wait is in progress; it is followed up to the deadline,
\* past which no comparison of the wait depends on it
Tick ==
  /\ pc \notin Terminal \cup { "start", "first_port_fail", "second_port_fail", "second_setup" }
  /\ jiffies < Delay
  /\ jiffies' = jiffies + 1
  /\ UNCHANGED << pc, outbuf, byte, dual_channel_test, globals, sinks, result, usable, ident, trace, last >>

\* the controller or a device puts a byte in the empty output buffer
DevicePut ==
  /\ outbuf = << >>
  /\ pc # "Unloaded"
  /\ \E b \in (IF pc \in Terminal THEN Scancodes ELSE Responses) : outbuf' = <<b>>
  /\ UNCHANGED << pc, jiffies, byte, dual_channel_test, globals, sinks, result, usable, ident, trace, last >>

(***************************************************************************)
(* read_reg (lines 151-165) and write_dev1 / write_dev2 (lines 168-200),   *)
(* as seen from the call site `site`.                                      *)
(***************************************************************************)
\* a call: j0 = jiffies
Call(site) == pc' = site /\ jiffies' = 0

\* read_reg finds status bit 0 set before the deadline; the byte read is Head(outbuf)
ReadOk(site) == pc = site /\ time_before(jiffies, j1) /\ outbuf # << >> /\ outbuf' = << >>

\* the loop condition time_before(jiffies, j1) fails: read_reg / write_dev return -1
TimedOut(site) == pc = site /\ ~time_before(jiffies, j1)

\* write_dev1 / write_dev2 find status bit 1 clear before the deadline and write the byte
WriteOk(site) == pc = site /\ time_before(jiffies, j1) /\ outbuf' = outbuf

\* init_module returns: its locals go out of scope
Return(state, value, site) ==
  /\ pc' = state
  /\ ret' = value
  /\ fail' = site
  /\ jiffies' = 0
  /\ byte' = 0
  /\ dual_channel_test' = 0

Out(writes) == trace' = trace \o writes

\* a wait that is fatal when it times out: printk "time limit exceeded", return -ETIME
FatalTimeout(site) ==
  /\ TimedOut(site)
  /\ Return("Failed", -ETIME, site)
  /\ UNCHANGED << outbuf, globals, sinks, usable, ident, trace, last >>

(***************************************************************************)
(* init_module, lines 202-329: one action per wait, holding the code       *)
(* between the return of that wait and the call of the next.               *)
(***************************************************************************)
\* lines 207-213: disable both ports, ask for the config byte
Start ==
  /\ pc = "start"
  /\ Out(<< "DISABLE_FIRST_PS2_PORT", "DISABLE_SECOND_PS2_PORT", "READ_CONFIG_BYTE" >>)
  /\ Call("flush")
  /\ UNCHANGED << outbuf, byte, dual_channel_test, globals, sinks, result, usable, ident, last >>

\* lines 213-220: the flushing read
Flush ==
  \/ /\ ReadOk("flush")
     /\ byte' = Head(outbuf)
     /\ Out(<< "READ_CONFIG_BYTE" >>)
     /\ Call("config")
     /\ UNCHANGED << dual_channel_test, globals, sinks, result, usable, ident, last >>
  \/ FatalTimeout("flush")

\* lines 220-228: read the config byte, clear bits 0, 1 and 6, write it to the data register
ReadConfig ==
  \/ /\ ReadOk("config")
     /\ byte' = clear_bit(6, clear_bit(1, clear_bit(0, Head(outbuf))))
     /\ Out(<< "data:config" >>)
     /\ Call("config_wb")
     /\ UNCHANGED << dual_channel_test, globals, sinks, result, usable, ident, last >>
  \/ FatalTimeout("config")

\* lines 228-237: a third read into byte, the write-config command, dual_channel_test, the self-test command
WriteConfig ==
  \/ /\ ReadOk("config_wb")
     /\ byte' = Head(outbuf)
     /\ dual_channel_test' = (IF test_bit(5, Head(outbuf)) THEN 1 ELSE 0)
     /\ Out(<< "WRITE_CONFIG_BYTE", "SELF_TEST" >>)
     /\ Call("selftest")
     /\ UNCHANGED << globals, sinks, result, usable, ident, last >>
  \/ FatalTimeout("config_wb")

\* a self test whose answer is not looked at
self_test_unchecked(b) == TRUE

\* line 241: if (byte == 0x55)
self_test_passed(b) == b = SelfTestPass

\* lines 237-252 (dual_channel_test set) or 237-268 (clear)
SelfTest ==
  \/ /\ ReadOk("selftest")
     /\ IF self_test_passed(Head(outbuf))
        THEN /\ byte' = Head(outbuf)
             /\ IF dual_channel_test = 1
                THEN Out(<< "ENABLE_SECOND_PS2_PORT", "READ_CONFIG_BYTE" >>) /\ Call("dualprobe")
                ELSE Out(<< "FIRST_PORT_INTERFACE_TEST" >>) /\ Call("iftest1")
             /\ UNCHANGED << dual_channel_test, result >>
        ELSE Return("Failed", -EINVAL, "selftest") /\ UNCHANGED trace
     /\ UNCHANGED << globals, sinks, usable, ident, last >>
  \/ FatalTimeout("selftest")

\* lines 252-268: the dual-channel probe
DualProbe ==
  \/ /\ ReadOk("dualprobe")
     /\ byte' = Head(outbuf)
     /\ dual_channel_test' = (IF test_bit(5, Head(outbuf)) THEN 0 ELSE 1)
     /\ Out(<< "DISABLE_SECOND_PS2_PORT", "FIRST_PORT_INTERFACE_TEST" >>)
     /\ Call("iftest1")
     /\ UNCHANGED << globals, sinks, result, usable, ident, last >>
  \/ FatalTimeout("dualprobe")

\* || written for &&
either_port_unusable(fp, sp) == fp = 0 \/ sp = 0

\* line 291: if (!first_port && !second_port)
no_usable_port(fp, sp) == fp = 0 /\ sp = 0

\* lines 291-297: if no port is usable return -EINVAL; else ask for the config byte
UsableCheck(fp, sp) ==
  IF no_usable_port(fp, sp)
  THEN Return("Failed", -EINVAL, "usable_check") /\ UNCHANGED trace
  ELSE /\ Out(<< "READ_CONFIG_BYTE" >>)
       /\ Call("enable")
       /\ UNCHANGED << dual_channel_test, result >>

\* lines 268-280 (dual_channel_test set) or 268-297 (clear): port 1's interface test
InterfaceTest1 ==
  \/ /\ ReadOk("iftest1")
     /\ LET fp == IF Head(outbuf) = \h00 THEN 1 ELSE first_port IN
        /\ first_port' = fp
        /\ usable' = (IF Head(outbuf) = \h00 THEN usable \cup {1} ELSE usable)
        /\ IF dual_channel_test = 1
           THEN /\ byte' = Head(outbuf)
                /\ Out(<< "SECOND_PORT_INTERFACE_TEST" >>)
                /\ Call("iftest2")
                /\ UNCHANGED << dual_channel_test, result >>
           ELSE /\ UsableCheck(fp, second_port)
                /\ (fp # 0 => byte' = Head(outbuf))
     /\ UNCHANGED << second_port, sinks, ident, last >>
  \/ FatalTimeout("iftest1")

\* lines 280-297: port 2's interface test
InterfaceTest2 ==
  \/ /\ ReadOk("iftest2")
     /\ LET sp == IF Head(outbuf) = \h00 THEN 1 ELSE second_port IN
        /\ second_port' = sp
        /\ usable' = (IF Head(outbuf) = \h00 THEN usable \cup {2} ELSE usable)
        /\ UsableCheck(first_port, sp)
        /\ (first_port # 0 \/ sp # 0 => byte' = Head(outbuf))
     /\ UNCHANGED << first_port, sinks, ident, last >>
  \/ FatalTimeout("iftest2")

\* lines 297-314: enable the usable ports, set their interrupt bits and bit 6, call write_dev1(I8042_RESET)
EnablePorts ==
  \/ /\ ReadOk("enable")
     /\ LET b1 == IF first_port # 0 THEN set_bit(0, Head(outbuf)) ELSE Head(outbuf)
            b2 == IF second_port # 0 THEN set_bit(1, b1) ELSE b1
        IN byte' = set_bit(6, b2)
     /\ Out((IF first_port # 0 THEN << "ENABLE_FIRST_PS2_PORT" >> ELSE << >>)
            \o (IF second_port # 0 THEN << "ENABLE_SECOND_PS2_PORT" >> ELSE << >>)
            \o << "data:config", "WRITE_CONFIG_BYTE" >>)
     /\ Call("reset1_w")
     /\ UNCHANGED << dual_channel_test, globals, sinks, result, usable, ident, last >>
  \/ FatalTimeout("enable")

\* lines 314-318: write_dev1(I8042_RESET), then wait for a byte
Reset1Write ==
  \/ /\ WriteOk("reset1_w")
     /\ Out(<< "dev1:RESET" >>)
     /\ Call("reset1_r")
     /\ UNCHANGED << byte, dual_channel_test, globals, sinks, result, usable, ident, last >>
  \/ FatalTimeout("reset1_w")

\* lines 318-322: the byte after port 1's reset, then the call of write_dev2(I8042_RESET)
Reset1Read ==
  \/ /\ ReadOk("reset1_r")
     /\ byte' = Head(outbuf)
     /\ Out(<< "WRITE_SECOND_PS2_INPUT_BUFFER" >>)
     /\ Call("reset2_w")
     /\ UNCHANGED << dual_channel_test, globals, sinks, result, usable, ident, last >>
  \/ FatalTimeout("reset1_r")

\* lines 322-326: write_dev2(I8042_RESET), then wait for a byte
Reset2Write ==
  \/ /\ WriteOk("reset2_w")
     /\ Out(<< "dev2:RESET" >>)
     /\ Call("reset2_r")
     /\ UNCHANGED << byte, dual_channel_test, globals, sinks, result, usable, ident, last >>
  \/ FatalTimeout("reset2_w")

\* lines 326-333: the byte after port 2's reset; then detection of the first port starts
Reset2Read ==
  \/ /\ ReadOk("reset2_r")
     /\ byte' = Head(outbuf)
     /\ IF first_port # 0
        THEN /\ Call("dis1_w")
             /\ ident' = [port |-> 1, bytes |-> << >>, tmo |-> "none"]
        ELSE /\ Call("first_port_fail")
             /\ ident' = ident
     /\ UNCHANGED << dual_channel_test, globals, sinks, result, usable, trace, last >>
  \/ FatalTimeout("reset2_r")

(***************************************************************************)
(* Device identification, lines 331-457.  The code is written twice, once  *)
(* per port; p is the port, and the two copies differ in write_dev1 /      *)
(* write_dev2 and in the second id byte they accept.                       *)
(***************************************************************************)
Site(p, one, two) == IF p = 1 THEN one ELSE two

\* first_port_fail: (line 395) and second_port_fail: (line 457)
FailLabel(p) == Site(p, "first_port_fail", "second_port_fail")

SetPort(p, class) ==
  IF p = 1 THEN first_port' = class /\ second_port' = second_port
           ELSE second_port' = class /\ first_port' = first_port

\* write_dev2 writes its command byte before it waits (line 188); write_dev1 does not
WriteCall(p) == IF p = 1 THEN << >> ELSE << "WRITE_SECOND_PS2_INPUT_BUFFER" >>

DevWrite(p, what) == << Site(p, "dev1:", "dev2:") \o what >>

\* a timeout while detecting that ends init_module like the timeouts before it
DetectTimeoutFatal(p, site) == FatalTimeout(site)

\* lines 333-337 / 399-403 and the like: a timeout while detecting: first_port = UNDEFINED; goto first_port_fail
DetectTimeout(p, site) ==
  /\ TimedOut(site)
  /\ SetPort(p, UNDEFINED)
  /\ ident' = [ident EXCEPT !.tmo = site]
  /\ Call(FailLabel(p))
  /\ UNCHANGED << outbuf, byte, dual_channel_test, sinks, result, usable, trace, last >>

\* lines 333-338 / 399-404: write_dev(I8042_DISABLE_SCANNING)
DisableScanningWrite(p) ==
  \/ /\ WriteOk(Site(p, "dis1_w", "dis2_w"))
     /\ Out(DevWrite(p, "DISABLE_SCANNING"))
     /\ Call(Site(p, "dis1_r", "dis2_r"))
     /\ UNCHANGED << byte, dual_channel_test, globals, sinks, result, usable, ident, last >>
  \/ DetectTimeout(p, Site(p, "dis1_w", "dis2_w"))

\* lines 338-343 / 404-409: its answer, then the call of write_dev(I8042_IDENTIFY)
DisableScanningRead(p) ==
  \/ /\ ReadOk(Site(p, "dis1_r", "dis2_r"))
     /\ byte' = Head(outbuf)
     /\ Out(WriteCall(p))
     /\ Call(Site(p, "id1_w", "id2_w"))
     /\ UNCHANGED << dual_channel_test, globals, sinks, result, usable, ident, last >>
  \/ DetectTimeout(p, Site(p, "dis1_r", "dis2_r"))

\* lines 343-348 / 409-414: write_dev(I8042_IDENTIFY)
IdentifyWrite(p) ==
  \/ /\ WriteOk(Site(p, "id1_w", "id2_w"))
     /\ Out(DevWrite(p, "IDENTIFY"))
     /\ Call(Site(p, "id1_ack", "id2_ack"))
     /\ UNCHANGED << byte, dual_channel_test, globals, sinks, result, usable, ident, last >>
  \/ DetectTimeout(p, Site(p, "id1_w", "id2_w"))

\* lines 348-354, 390-393 / 414-420, 452-455: the acknowledgement
IdentifyAck(p) ==
  \/ /\ ReadOk(Site(p, "id1_ack", "id2_ack"))
     /\ byte' = Head(outbuf)
     /\ ident' = [ident EXCEPT !.bytes = Append(@, Head(outbuf))]
     /\ IF Head(outbuf) = \hFA
        THEN Call(Site(p, "id1_b1", "id2_b1")) /\ UNCHANGED globals
        ELSE Call(FailLabel(p)) /\ SetPort(p, UNDEFINED)
     /\ UNCHANGED << dual_channel_test, sinks, result, usable, trace, last >>
  \/ DetectTimeout(p, Site(p, "id1_ack", "id2_ack"))

\* lines 359-368, 386-389 / 425-434, 448-451: the class of a one-byte id
ClassOfId(b) == IF b \in { \h00, \h03, \h04 } THEN MOUSE ELSE UNDEFINED

\* lines 354-370 / 420-436: the first id byte
IdentifyByte1(p) ==
  \/ /\ ReadOk(Site(p, "id1_b1", "id2_b1"))
     /\ byte' = Head(outbuf)
     /\ ident' = [ident EXCEPT !.bytes = Append(@, Head(outbuf))]
     /\ IF Head(outbuf) = \hAB
        THEN Call(Site(p, "id1_b2", "id2_b2")) /\ UNCHANGED globals
        ELSE Call(FailLabel(p)) /\ SetPort(p, ClassOfId(Head(outbuf)))
     /\ UNCHANGED << dual_channel_test, sinks, result, usable, trace, last >>
  \/ DetectTimeout(p, Site(p, "id1_b1", "id2_b1"))

\* lines 375-385: the first port's class from the byte after 0xAB
ClassOfFirstKeyboard(b2) ==
  IF b2 = \h41 \/ b2 = \hC1 THEN KEYBOARD
  ELSE IF b2 = \h83 THEN KEYBOARD
  ELSE UNDEFINED

\* the second port accepting what the first port accepts
ClassOfSecondLikeFirst(b2) == IF b2 \in { \h41, \hC1, \h83 } THEN KEYBOARD ELSE UNDEFINED

\* lines 441-447: the second port's class from the byte after 0xAB
ClassOfSecondKeyboard(b2) ==
  IF b2 = \h41 \/ b2 = \hC1 THEN KEYBOARD
  ELSE UNDEFINED

\* lines 370-385 / 436-447: the second id byte (read into byte2)
IdentifyByte2(p) ==
  \/ /\ ReadOk(Site(p, "id1_b2", "id2_b2"))
     /\ ident' = [ident EXCEPT !.bytes = Append(@, Head(outbuf))]
     /\ SetPort(p, IF p = 1 THEN ClassOfFirstKeyboard(Head(outbuf))
                            ELSE ClassOfSecondKeyboard(Head(outbuf)))
     /\ Call(FailLabel(p))
     /\ UNCHANGED << byte, dual_channel_test, sinks, result, usable, trace, last >>
  \/ DetectTimeout(p, Site(p, "id1_b2", "id2_b2"))

\* lines 395-399: detection of the second port starts, if it is usable
DetectSecond ==
  /\ pc = "first_port_fail"
  /\ IF second_port # 0
     THEN /\ Out(WriteCall(2))
          /\ Call("dis2_w")
          /\ ident' = [port |-> 2, bytes |-> << >>, tmo |-> "none"]
     ELSE /\ Call("second_port_fail")
          /\ UNCHANGED << trace, ident >>
  /\ UNCHANGED << outbuf, byte, dual_channel_test, globals, sinks, result, usable, last >>

Detect ==
  \/ DetectSecond
  \/ \E p \in {1, 2} :
       \/ DisableScanningWrite(p) \/ DisableScanningRead(p) \/ IdentifyWrite(p)
       \/ IdentifyAck(p) \/ IdentifyByte1(p) \/ IdentifyByte2(p)

(***************************************************************************)
(* Sinks and interrupt bindings.  A call is written as a token; Effect is  *)
(* what the call does to dev1, dev2 and the bound interrupt lines (a       *)
(* register write does nothing to them).                                   *)
(***************************************************************************)
Effect(op, st) ==
  CASE op = "alloc_dev1" -> [st EXCEPT !.dev1 = "allocated"]
    [] op = "alloc_dev2" -> [st EXCEPT !.dev2 = "allocated"]
    [] op = "register_dev1" -> [st EXCEPT !.dev1 = "registered"]
    [] op = "register_dev2" -> [st EXCEPT !.dev2 = "registered"]
    [] op = "request_irq1" -> [st EXCEPT !.irqs = @ \cup {I8042_IRQ1}]
    [] op = "request_irq12" -> [st EXCEPT !.irqs = @ \cup {I8042_IRQ12}]
    [] op = "free_irq1" -> [st EXCEPT !.irqs = @ \ {I8042_IRQ1}]
    [] op = "free_irq12" -> [st EXCEPT !.irqs = @ \ {I8042_IRQ12}]
    [] op = "unregister_dev1" -> [st EXCEPT !.dev1 = IF @ = "registered" THEN "none" ELSE "corrupt"]
    [] op = "unregister_dev2" -> [st EXCEPT !.dev2 = IF @ = "registered" THEN "none" ELSE "corrupt"]
    [] op = "free_dev1" -> [st EXCEPT !.dev1 = IF @ = "allocated" THEN "none" ELSE "corrupt"]
    [] op = "free_dev2" -> [st EXCEPT !.dev2 = IF @ = "allocated" THEN "none" ELSE "corrupt"]
    [] OTHER -> st

RECURSIVE Effects(_, _)
Effects(ops, st) == IF ops = << >> THEN st ELSE Effects(Tail(ops), Effect(Head(ops), st))

\* make the calls `ops`, in order
Do(ops) ==
  LET st == Effects(ops, [dev1 |-> dev1, dev2 |-> dev2, irqs |-> irqs]) IN
  /\ dev1' = st.dev1
  /\ dev2' = st.dev2
  /\ irqs' = st.irqs
  /\ Out(ops)

\* the unwinding labels of init_module, lines 544-572, each with what it falls through to
err_dev1_unreg == << "unregister_dev1" >>
err_irq1_free == << "free_irq1" >> \o err_dev1_unreg
err_first_dev2_unreg == << "unregister_dev2" >> \o err_irq1_free
err_first_irq12_free == << "free_irq12" >> \o err_first_dev2_unreg
err_second_dev2_unreg == << "unregister_dev2" >>
err_second_irq12_free == << "free_irq12" >> \o err_second_dev2_unreg
err_dev1_free == << "free_dev1" >>
\* the label without the first port's teardown
err_first_dev2_free_short == << "free_dev2" >>

err_first_dev2_free == << "free_dev2", "free_irq1", "unregister_dev1" >>
err_second_dev2_free == << "free_dev2" >>

\* a fatal failure of step 11: the calls made so far, the unwinding, the return of `value`
Abort(made, unwind, value, site) ==
  /\ Do(made \o unwind)
  /\ Return("Failed", value, site)

\* the handler bound before the sink is registered
setup_dev1_irq_first == << "alloc_dev1", "request_irq1", "register_dev1" >>

\* lines 460-474: input_allocate_device, input_register_device, request_irq, in this order
setup_dev1 == << "alloc_dev1", "register_dev1", "request_irq1" >>

\* lines 493-514: the same for the second port
setup_dev2 == << "alloc_dev2", "register_dev2", "request_irq12" >>

\* lines 459-480: the first port's sink, its interrupt handler, the call of write_dev1(I8042_KBD_ENABLE)
SetupFirst ==
  /\ pc = "second_port_fail"
  /\ ident' = NoIdent
  /\ IF first_port # 0
     THEN \/ Abort(<< >>, << >>, -ENOMEM, "alloc1")
          \/ \E e \in RegisterErrors : Abort(SubSeq(setup_dev1, 1, 1), err_dev1_free, -e, "register1")
          \/ Abort(SubSeq(setup_dev1, 1, 2), err_dev1_unreg, -EBUSY, "irq1")
          \/ /\ Do(setup_dev1)
             /\ Call("en1_w")
             /\ UNCHANGED << byte, dual_channel_test, result >>
     ELSE /\ Call("second_setup")
          /\ UNCHANGED << byte, dual_channel_test, sinks, result, trace >>
  /\ UNCHANGED << outbuf, globals, usable, last >>

\* a wait of step 11 times out: error = -ETIME; goto the unwinding label
SetupTimeout(site, unwind) ==
  /\ TimedOut(site)
  /\ Abort(<< >>, unwind, -ETIME, site)
  /\ UNCHANGED << outbuf, globals, usable, ident, last >>

\* lines 480-485: write_dev1(I8042_KBD_ENABLE)
EnableScanning1Write ==
  \/ /\ WriteOk("en1_w")
     /\ Out(<< "dev1:KBD_ENABLE" >>)
     /\ Call("en1_r")
     /\ UNCHANGED << byte, dual_channel_test, globals, sinks, result, usable, ident, last >>
  \/ SetupTimeout("en1_w", err_irq1_free)

\* lines 485-491: its answer
EnableScanning1Read ==
  \/ /\ ReadOk("en1_r")
     /\ byte' = Head(outbuf)
     /\ Call("second_setup")
     /\ UNCHANGED << dual_channel_test, globals, sinks, result, usable, ident, trace, last >>
  \/ SetupTimeout("en1_r", err_irq1_free)

\* lines 492-523, 542: the second port's sink and handler, or return 0
SetupSecond ==
  /\ pc = "second_setup"
  /\ IF second_port # 0
     THEN \/ Abort(<< >>, IF first_port # 0 THEN err_irq1_free ELSE << >>, -ENOMEM, "alloc2")
          \/ \E e \in RegisterErrors :
               Abort(SubSeq(setup_dev2, 1, 1),
                     IF first_port # 0 THEN err_first_dev2_free ELSE err_second_dev2_free,
                     -e, "register2")
          \/ Abort(SubSeq(setup_dev2, 1, 2),
                   IF first_port # 0 THEN err_first_dev2_unreg ELSE err_second_dev2_unreg,
                   -EBUSY, "irq12")
          \/ /\ Do(setup_dev2 \o WriteCall(2))
             /\ Call("en2_w")
             /\ UNCHANGED << byte, dual_channel_test, result >>
     ELSE /\ Return("Ready", 0, "none")
          /\ UNCHANGED << sinks, trace >>
  /\ UNCHANGED << outbuf, globals, usable, ident, last >>

\* lines 523-531: write_dev2(I8042_KBD_ENABLE)
EnableScanning2Write ==
  \/ /\ WriteOk("en2_w")
     /\ Out(<< "dev2:KBD_ENABLE" >>)
     /\ Call("en2_r")
     /\ UNCHANGED << byte, dual_channel_test, globals, sinks, result, usable, ident, last >>
  \/ SetupTimeout("en2_w", IF first_port # 0 THEN err_first_irq12_free ELSE err_second_irq12_free)

\* lines 531-542: its answer; return 0
EnableScanning2Read ==
  \/ /\ ReadOk("en2_r")
     /\ Return("Ready", 0, "none")
     /\ UNCHANGED << globals, sinks, usable, ident, trace, last >>
  \/ SetupTimeout("en2_r", IF first_port # 0 THEN err_first_irq12_free ELSE err_second_irq12_free)

(***************************************************************************)
(* cleanup_module, lines 575-585: runs when a loaded module is removed.    *)
(***************************************************************************)
\* both ports torn down without looking at first_port / second_port
cleanup_calls_unguarded(fp, sp) == << "free_irq1", "unregister_dev1", "free_irq12", "unregister_dev2" >>

\* lines 577-584: the calls cleanup_module makes
cleanup_calls(fp, sp) ==
  (IF fp # 0 THEN << "free_irq1", "unregister_dev1" >> ELSE << >>)
  \o (IF sp # 0 THEN << "free_irq12", "unregister_dev2" >> ELSE << >>)

cleanup_module ==
  /\ pc = "Ready"
  /\ Do(cleanup_calls(first_port, second_port))
  /\ pc' = "Unloaded"
  /\ UNCHANGED << jiffies, outbuf, byte, dual_channel_test, globals, result, usable, ident, last >>

(***************************************************************************)
(* i8042_handler, lines 110-148, run on interrupt line irq for the byte in *)
(* the output buffer.  dev_data is the sink bound with the line by         *)
(* request_irq.  After the escape byte the handler reads the data register *)
(* a second time in the same invocation: it finds the byte `arrived` if a  *)
(* new one came in between, and otherwise the byte the register still      *)
(* holds.                                                                  *)
(***************************************************************************)
DevOf(irq) == IF irq = I8042_IRQ1 THEN "dev1" ELSE "dev2"

\* lines 116-144: the input_report_key calls for the bytes read
Reported(irq, scancode, second) ==
  IF irq = I8042_IRQ1
  THEN IF scancode # EscapeByte THEN ScanOneByte(scancode) ELSE ScanEscaped(second)
  ELSE << >>

\* input_sync(dev) inside the keyboard branch only
SyncedKeyboardOnly(irq) == IF irq = I8042_IRQ1 THEN << DevOf(irq) >> ELSE << >>

\* line 146: input_sync(dev), on every path
Synced(irq) == << DevOf(irq) >>

i8042_handler(irq) ==
  /\ irq \in irqs
  /\ outbuf # << >>
  /\ LET scancode == Head(outbuf)
         reads_again == irq = I8042_IRQ1 /\ scancode = EscapeByte
     IN \E arrived \in {-1} \cup (IF reads_again THEN Scancodes ELSE {}) :
          LET second == IF arrived = -1 THEN scancode ELSE arrived IN
          last' = [irq |-> irq,
                   first |-> scancode,
                   second |-> IF reads_again THEN second ELSE -1,
                   arrived |-> arrived,
                   events |-> [k \in 1..Len(Reported(irq, scancode, second)) |->
                                 << DevOf(irq) >> \o Reported(irq, scancode, second)[k]],
                   syncs |-> Synced(irq),
                   after_escape |-> /\ last.irq = irq
                                    /\ last.first = EscapeByte
                                    /\ last.second = EscapeByte]
  /\ outbuf' = << >>
  /\ UNCHANGED << pc, jiffies, byte, dual_channel_test, globals, sinks, result, usable, ident, trace >>

Setup ==
  \/ SetupFirst \/ EnableScanning1Write \/ EnableScanning1Read
  \/ SetupSecond \/ EnableScanning2Write \/ EnableScanning2Read

Configure ==
  \/ Start \/ Flush \/ ReadConfig \/ WriteConfig \/ SelfTest \/ DualProbe
  \/ InterfaceTest1 \/ InterfaceTest2 \/ EnablePorts
  \/ Reset1Write \/ Reset1Read \/ Reset2Write \/ Reset2Read

init_module == Configure \/ Detect \/ Setup

Next ==
  \/ init_module
  \/ cleanup_module
  \/ \E irq \in {I8042_IRQ1, I8042_IRQ12} : i8042_handler(irq)
  \/ Tick
  \/ DevicePut

Spec == Init /\ [][Next]_vars

\* the clock keeps advancing and init_module, once entered, keeps being executed
FairSpec == Spec /\ WF_vars(Tick) /\ WF_vars(init_module)

(***************************************************************************)
(* Vocabulary of the properties.                                           *)
(***************************************************************************)
Range(seq) == { seq[i] : i \in DOMAIN seq }
Reverse(seq) == [i \in 1..Len(seq) |-> seq[Len(seq) + 1 - i]]
CountOf(seq, e) == Cardinality({ i \in DOMAIN seq : seq[i] = e })

AcquireOps == { "alloc_dev1", "alloc_dev2", "request_irq1", "request_irq12" }
ReleaseOps == { "free_dev1", "free_dev2", "unregister_dev1", "unregister_dev2", "free_irq1", "free_irq12" }

\* the sink or interrupt binding a call acquires or releases
ResourceOf(op) ==
  CASE op \in { "alloc_dev1", "free_dev1", "unregister_dev1" } -> "sink1"
    [] op \in { "alloc_dev2", "free_dev2", "unregister_dev2" } -> "sink2"
    [] op \in { "request_irq1", "free_irq1" } -> "line1"
    [] op \in { "request_irq12", "free_irq12" } -> "line12"

Resources(ops) == [i \in DOMAIN ops |-> ResourceOf(ops[i])]
IsAcquire(op) == op \in AcquireOps
IsRelease(op) == op \in ReleaseOps
Acquired == Resources(SelectSeq(trace, IsAcquire))
Released == Resources(SelectSeq(trace, IsRelease))

NoSinks == dev1 = "none" /\ dev2 = "none" /\ irqs = {}
HasSink(p) == IF p = 1 THEN dev1 = "registered" ELSE dev2 = "registered"
HasHandler(p) == IF p = 1 THEN I8042_IRQ1 \in irqs ELSE I8042_IRQ12 \in irqs
ClassOf(p) == IF p = 1 THEN first_port ELSE second_port

\* the program points up to and including the interface tests
BeforeUsableCheck ==
  { "start", "flush", "config", "config_wb", "selftest", "dualprobe", "iftest1", "iftest2" }
PastInterfaceTests ==
  IF pc = "Failed" THEN fail \notin BeforeUsableCheck ELSE pc \notin BeforeUsableCheck

InTable(b, press, release) == \E i \in DOMAIN press : b = press[i] \/ b = release[i]
Tagged(irq, reports) == [k \in DOMAIN reports |-> << DevOf(irq) >> \o reports[k]]
Called == last.irq # 0
PortOf(irq) == IF irq = I8042_IRQ1 THEN 1 ELSE 2
Other(p) == 3 - p

\* the first place of e in seq, 0 if it has none
Pos(seq, e) ==
  LET hits == { i \in DOMAIN seq : seq[i] = e } IN
  IF hits = {} THEN 0 ELSE CHOOSE i \in hits : \A j \in hits : i <= j
\* of two places in the trace (0: not done): b was not done, or a was done before it
Before(a, b) == b # 0 => a # 0 /\ a < b

\* the program points at which read_reg is waiting for a byte
ReadSites ==
  { "flush", "config", "config_wb", "selftest", "dualprobe", "iftest1", "iftest2", "enable",
    "reset1_r", "reset2_r", "dis1_r", "id1_ack", "id1_b1", "id1_b2",
    "dis2_r", "id2_ack", "id2_b1", "id2_b2", "en1_r", "en2_r" }
\* the waits of port p's identification, and the label after it
IdentSites(p) ==
  IF p = 1 THEN { "dis1_w", "dis1_r", "id1_w", "id1_ack", "id1_b1", "id1_b2" }
           ELSE { "dis2_w", "dis2_r", "id2_w", "id2_ack", "id2_b1", "id2_b2" }
AfterIdent(p) == IF p = 1 THEN "first_port_fail" ELSE "second_port_fail"
\* port p's identification has just ended
Identified(p) == pc = AfterIdent(p) /\ ident.port = p

\* the class the specification gives to the bytes read after the identify command:
\* the acknowledgement, the id byte, and the byte after an id byte 0xAB
IdentClass(p, bytes) ==
  IF Len(bytes) < 2 \/ bytes[1] # \hFA THEN UNDEFINED
  ELSE IF bytes[2] \in { \h00, \h03, \h04 } THEN MOUSE
  ELSE IF Len(bytes) = 3 /\ bytes[2] = \hAB /\ bytes[3] \in { \h41, \hC1 } THEN KEYBOARD
  ELSE IF Len(bytes) = 3 /\ bytes[2] = \hAB /\ bytes[3] = \h83 /\ p = 1 THEN KEYBOARD
  ELSE UNDEFINED

(***************************************************************************)
(* C1.  Whenever init_module has failed, every sink and interrupt binding  *)
(* it had acquired has been released exactly once, in the reverse order of *)
(* acquisition, by the call that fits its state, and nothing else was      *)
(* released: no sink and no binding is left.                               *)
(***************************************************************************)
C1_FailureUnwinds ==
  pc = "Failed" => /\ Released = Reverse(Acquired)
                   /\ NoSinks

\* port 1 fully set up, port 2's sink allocated, its registration failed
C1_Witness ==
  /\ pc = "Failed"
  /\ fail = "register2"
  /\ Acquired = << "sink1", "line1", "sink2" >>
  /\ Released = << "sink2", "line1", "sink1" >>

(***************************************************************************)
(* C2.  With the clock advancing, init_module reaches a terminal state     *)
(* whatever the controller and the devices do; and a wait gives up only    *)
(* when Delay ticks have passed since it was called.                       *)
(***************************************************************************)
C2_BringUpTerminates ==
  /\ [][((ret' = -ETIME /\ ret # -ETIME) \/ (ident'.tmo # ident.tmo /\ ident'.tmo # "none"))
          => jiffies = Delay]_vars
  /\ <>(pc \in Terminal)

\* nothing ever answered: the first wait timed out
C2_Witness ==
  /\ pc = "Failed"
  /\ fail = "flush"
  /\ ret = -ETIME
  /\ outbuf = << >>

(***************************************************************************)
(* C3.  With one byte per invocation on a line: the invocation that reads  *)
(* the escape byte reports nothing, the next invocation's byte is looked   *)
(* up in the escape tables only, and any other invocation's byte in the    *)
(* one-byte tables.                                                        *)
(***************************************************************************)
C3_EscapeSpansInvocations ==
  Called /\ last.irq = I8042_IRQ1 /\ first_port = KEYBOARD =>
    /\ last.first = EscapeByte /\ last.second = EscapeByte /\ ~last.after_escape
         => last.events = << >>
    /\ last.after_escape
         => last.events = Tagged(last.irq, ScanEscaped(last.first))
    /\ ~last.after_escape /\ last.first # EscapeByte
         => last.events = Tagged(last.irq, ScanOneByte(last.first))

(***************************************************************************)
(* C4.  On either line bound for a keyboard, with no escape pending, a     *)
(* byte of the one-byte press (release) table is reported as exactly one   *)
(* event: the key of the same index, pressed (released).                   *)
(***************************************************************************)
C4_OneByteCodesOnEitherPort ==
  Called /\ ~last.after_escape /\ ClassOf(IF last.irq = I8042_IRQ1 THEN 1 ELSE 2) = KEYBOARD =>
    \A i \in DOMAIN press_scancodes :
      /\ last.first = press_scancodes[i] => last.events = << << DevOf(last.irq), keys[i], 1 >> >>
      /\ last.first = release_scancodes[i] => last.events = << << DevOf(last.irq), keys[i], 0 >> >>

(***************************************************************************)
(* C5.  If only port 1 passed its interface test, every answer of the      *)
(* controller and of port 1 arrived, every sink and interrupt call         *)
(* succeeded and port 1 identified as a keyboard, then init_module ends in *)
(* Ready(Keyboard, Undefined) with one sink and one binding, on line 1 -   *)
(* whether or not anything answers on port 2.                              *)
(***************************************************************************)
C5_Port2SilenceIsHarmless ==
  /\ pc \in { "Ready", "Failed" }
  /\ usable = {1}
  /\ fail \in { "none", "reset2_r" }
  /\ (pc = "Ready" => first_port = KEYBOARD)
  => /\ pc = "Ready"
     /\ first_port = KEYBOARD /\ second_port = UNDEFINED
     /\ dev1 = "registered" /\ dev2 = "none"
     /\ irqs = { I8042_IRQ1 }

(***************************************************************************)
(* C6.  A self-test answer other than the pass byte ends init_module at    *)
(* once with -EINVAL: no further register is written, no sink or binding   *)
(* exists, and nothing is done afterwards.                                 *)
(***************************************************************************)
C6_SelfTestFailureStops ==
  /\ [][(/\ pc = "selftest" /\ pc' # "selftest"
         /\ outbuf # << >> /\ outbuf' = << >>
         /\ Head(outbuf) # SelfTestPass)
          => pc' = "Failed" /\ fail' = "selftest" /\ ret' = -EINVAL /\ trace' = trace]_vars
  /\ [](fail = "selftest" =>
          /\ pc = "Failed"
          /\ trace[Len(trace)] = "SELF_TEST"
          /\ usable = {} /\ first_port = UNDEFINED /\ second_port = UNDEFINED
          /\ NoSinks)
  /\ [][pc = "Failed" => pc' = "Failed" /\ trace' = trace]_vars

C6_Witness ==
  /\ pc = "Failed"
  /\ fail = "selftest"
  /\ ret = -EINVAL

(***************************************************************************)
(* C7.  Once the interface tests are over, init_module has failed for want *)
(* of a usable port exactly when no test answered 0x00; that failure       *)
(* returns -EINVAL and leaves no sink or binding.  Port 2 is tested only   *)
(* after a dual-channel probe that found it, and a port that failed its    *)
(* test is not enabled.                                                    *)
(***************************************************************************)
C7_NoUsablePort ==
  /\ PastInterfaceTests => ((pc = "Failed" /\ fail = "usable_check") <=> usable = {})
  /\ fail = "usable_check" => pc = "Failed" /\ ret = -EINVAL /\ NoSinks
  /\ pc = "iftest2" => dual_channel_test = 1
  /\ "SECOND_PORT_INTERFACE_TEST" \in Range(trace) => CountOf(trace, "ENABLE_SECOND_PS2_PORT") >= 1
  /\ "ENABLE_FIRST_PS2_PORT" \in Range(trace) => 1 \in usable
  /\ CountOf(trace, "ENABLE_SECOND_PS2_PORT") >= 2 => 2 \in usable

\* port 1 failed its test, port 2 passed: bring-up goes on with port 2 alone
C7_Witness ==
  /\ pc = "reset1_w"
  /\ usable = {2}
  /\ "ENABLE_FIRST_PS2_PORT" \notin Range(trace)

(***************************************************************************)
(* C8.  init_module returns 0 only with a registered sink and an installed *)
(* handler for at least one port.                                          *)
(***************************************************************************)
C8_ReadyHasAPort ==
  pc = "Ready" => \E p \in {1, 2} : HasSink(p) /\ HasHandler(p)

(***************************************************************************)
(* C9.  Whenever init_module has returned, and after cleanup_module, a     *)
(* port recorded as Keyboard or Mouse has a handler and a sink, and a port *)
(* recorded as Undefined has neither.                                      *)
(***************************************************************************)
C9_ClassMatchesResources ==
  pc \in Terminal =>
    \A p \in {1, 2} :
      IF ClassOf(p) \in { KEYBOARD, MOUSE }
      THEN HasSink(p) /\ HasHandler(p)
      ELSE ~HasSink(p) /\ ~HasHandler(p)

FedToLast == << last.first >> \o (IF last.arrived = -1 THEN << >> ELSE << last.arrived >>)

\* the reports of the run that serves one interrupt per byte, nothing arriving meanwhile
RECURSIVE OnePerInvocation(_, _)
OnePerInvocation(irq, bytes) ==
  IF bytes = << >> THEN << >>
  ELSE Tagged(irq, Reported(irq, Head(bytes), Head(bytes))) \o OnePerInvocation(irq, Tail(bytes))

C11_DecoderIsDeterministic ==
  Called /\ ~last.after_escape /\ ClassOf(PortOf(last.irq)) = KEYBOARD
    => last.events = OnePerInvocation(last.irq, FedToLast)

(***************************************************************************)
(* C12.  The read of the dual-channel probe never ends init_module: a step *)
(* that leaves it goes on to port 1's interface test, and when it leaves   *)
(* without a byte read (a timeout) the controller is treated as            *)
(* single-channel, port 2 staying Undefined.                               *)
(***************************************************************************)
C12_DualProbeTimeoutDowngrades ==
  [][pc = "dualprobe" /\ pc' # "dualprobe"
       => /\ pc' = "iftest1"
          /\ ret' = 0
          /\ outbuf' = outbuf => dual_channel_test' = 0 /\ second_port' = UNDEFINED]_vars

(***************************************************************************)
(* C13.  A wait of port p's identification that ends at its deadline makes *)
(* port p Undefined and goes to the end of that identification; no step of *)
(* an identification ends init_module or touches the other port's class;   *)
(* after port 1's identification, however it ended, port 2's is started if *)
(* port 2 is usable, and a port whose identification timed out is          *)
(* Undefined while the other keeps the class of its own bytes.             *)
(***************************************************************************)
C13_IdentFailureIsLocal ==
  /\ [][\A p \in {1, 2} :
          pc \in IdentSites(p) /\ pc' # pc
            => /\ pc' # "Failed"
               /\ pc' \in IdentSites(p) \cup { AfterIdent(p) }
               /\ ClassOf(Other(p))' = ClassOf(Other(p))
               /\ jiffies = Delay => pc' = AfterIdent(p) /\ ClassOf(p)' = UNDEFINED]_vars
  /\ [][pc = "first_port_fail" /\ pc' # pc
          => /\ first_port' = first_port
             /\ pc' = (IF 2 \in usable THEN "dis2_w" ELSE "second_port_fail")]_vars
  /\ [](\A p \in {1, 2} : Identified(p) /\ ident.tmo # "none" => ClassOf(p) = UNDEFINED)
  /\ [](Identified(2) /\ ident.tmo = "none" => second_port = IdentClass(2, ident.bytes))

\* port 1 never answered the disable-scanning command; port 2 was then found to be a keyboard
C13_Witness ==
  /\ Identified(2)
  /\ usable = {1, 2}
  /\ "dev1:DISABLE_SCANNING" \in Range(trace)
  /\ "dev1:IDENTIFY" \notin Range(trace)
  /\ first_port = UNDEFINED
  /\ second_port = KEYBOARD

(***************************************************************************)
(* C14.  While init_module runs, a byte it is waiting for leaves the       *)
(* output buffer only by init_module's own read.                           *)
(***************************************************************************)
C14_NoRaceWithBringUp ==
  [][(pc \in ReadSites /\ outbuf # << >> /\ outbuf' = << >>) => pc' # pc]_vars

(***************************************************************************)
(* C15.  When the identification of a port ends without a timeout, the     *)
(* port's class is the specification's function of the bytes read after    *)
(* the identify command: Mouse for 0xFA then 0x00, 0x03 or 0x04; Keyboard  *)
(* for 0xFA, 0xAB then 0x41 or 0xC1, and on port 1 also 0x83; Undefined    *)
(* otherwise.                                                              *)
(***************************************************************************)
C15_ClassOfIdBytes ==
  \A p \in {1, 2} :
    Identified(p) /\ ident.tmo = "none" => ClassOf(p) = IdentClass(p, ident.bytes)

\* port 2 answered 0xFA, 0xAB, 0x83: a keyboard on port 1, Undefined on port 2
C15_Witness ==
  /\ Identified(2)
  /\ ident.bytes = << \hFA, \hAB, \h83 >>
  /\ second_port = UNDEFINED

(***************************************************************************)
(* C16.  A sink or a handler exists only for a port classified Keyboard,   *)
(* enable-scanning is sent only to such a port, and every key reported     *)
(* goes to the sink of a port classified Keyboard.                         *)
(***************************************************************************)
C16_EventsOnlyForKeyboards ==
  /\ dev1 # "none" \/ HasHandler(1) => first_port = KEYBOARD
  /\ dev2 # "none" \/ HasHandler(2) => second_port = KEYBOARD
  /\ pc \in { "en1_w", "en1_r" } => first_port = KEYBOARD
  /\ pc \in { "en2_w", "en2_r" } => second_port = KEYBOARD
  /\ Called /\ last.events # << >> => ClassOf(PortOf(last.irq)) = KEYBOARD

(***************************************************************************)
(* C17.  The reset command is written to a port, and its answer waited     *)
(* for, only if the port passed its interface test; init_module never      *)
(* fails in the reset of a port that did not.                              *)
(***************************************************************************)
C17_ResetOnlyUsablePorts ==
  /\ "dev1:RESET" \in Range(trace) \/ pc \in { "reset1_w", "reset1_r" }
       \/ fail \in { "reset1_w", "reset1_r" } => 1 \in usable
  /\ "dev2:RESET" \in Range(trace) \/ pc \in { "reset2_w", "reset2_r" }
       \/ fail \in { "reset2_w", "reset2_r" } => 2 \in usable

(***************************************************************************)
(* C18.  dual_channel_test is set to bit 5 of the configuration byte read  *)
(* in step 3 (held in byte, bits 0, 1 and 6 cleared, while the next read   *)
(* is waited for); the probe then sets it when bit 5 of the byte re-read   *)
(* is clear and clears it, disabling port 2 again, when that bit is set;   *)
(* and port 2's interface test is run exactly when it is set.              *)
(***************************************************************************)
C18_DualChannelFromConfigByte ==
  /\ [][pc = "config_wb" /\ pc' = "selftest"
          => dual_channel_test' = (IF test_bit(5, byte) THEN 1 ELSE 0)]_vars
  /\ [][pc = "dualprobe" /\ pc' = "iftest1"
          => /\ dual_channel_test' = (IF test_bit(5, Head(outbuf)) THEN 0 ELSE 1)
             /\ trace'[Len(trace) + 1] = "DISABLE_SECOND_PS2_PORT"]_vars
  /\ [][pc = "selftest" /\ pc' \notin { "selftest", "Failed" }
          => pc' = (IF dual_channel_test = 1 THEN "dualprobe" ELSE "iftest1")]_vars
  /\ [][pc = "iftest1" /\ pc' \notin { "iftest1", "Failed" }
          => (pc' = "iftest2" <=> dual_channel_test = 1)]_vars

(***************************************************************************)
(* C19.  For each port, in every run: disable-scanning is sent only to a   *)
(* port that passed its interface test, and after that test; then come, in *)
(* this order, the identify command, the allocation of the sink, its       *)
(* registration, the binding of the handler, the enable-scanning command.  *)
(* A handler is bound only while the sink is registered, and no sink or    *)
(* handler exists until the self test and the interface tests are over.    *)
(***************************************************************************)
C19_PerPortOrder ==
  /\ \A p \in {1, 2} :
       LET tok(x, y) == Pos(trace, IF p = 1 THEN x ELSE y)
           test == tok("FIRST_PORT_INTERFACE_TEST", "SECOND_PORT_INTERFACE_TEST")
           dis == tok("dev1:DISABLE_SCANNING", "dev2:DISABLE_SCANNING")
           idf == tok("dev1:IDENTIFY", "dev2:IDENTIFY")
           alloc == tok("alloc_dev1", "alloc_dev2")
           reg == tok("register_dev1", "register_dev2")
           irq == tok("request_irq1", "request_irq12")
           en == tok("dev1:KBD_ENABLE", "dev2:KBD_ENABLE")
       IN /\ dis # 0 => p \in usable
          /\ Before(test, dis)
          /\ Before(dis, idf)
          /\ Before(idf, alloc)
          /\ Before(alloc, reg)
          /\ Before(reg, irq)
          /\ Before(irq, en)
          /\ HasHandler(p) => HasSink(p)
  /\ ~NoSinks => PastInterfaceTests /\ Pos(trace, "SELF_TEST") # 0

\* both ports went through every step
C19_Witness ==
  /\ pc = "Ready"
  /\ "dev1:KBD_ENABLE" \in Range(trace)
  /\ "dev2:KBD_ENABLE" \in Range(trace)

(***************************************************************************)
(* C20.  cleanup_module, run on a loaded module, makes for each port that  *)
(* has a handler and a sink the calls free_irq and then                    *)
(* input_unregister_device, port 1 first, and no other call; afterwards no *)
(* sink and no binding is left, and nothing was released twice.            *)
(***************************************************************************)
C20_CleanupReleasesWhatLoadLeft ==
  /\ [][pc = "Ready" /\ pc' = "Unloaded"
          => trace' = trace
                      \o (IF HasHandler(1) /\ HasSink(1) THEN << "free_irq1", "unregister_dev1" >> ELSE << >>)
                      \o (IF HasHandler(2) /\ HasSink(2) THEN << "free_irq12", "unregister_dev2" >> ELSE << >>)]_vars
  /\ [](pc = "Unloaded" => /\ NoSinks
                           /\ \A r \in ReleaseOps : CountOf(trace, r) <= 1
                           /\ Range(Released) = Range(Acquired))

\* a module loaded with port 2 alone, then removed
C20_Witness ==
  /\ pc = "Unloaded"
  /\ "free_irq12" \in Range(trace)
  /\ "free_irq1" \notin Range(trace)

====
